---- MODULE Spec2Model ----
(***************************************************************************)
(* File Reference Resolution & Refresh subsystem of the EduLearn miniapp:  *)
(* StorageManager (src/storage_manager.py) over the file_references        *)
(* collection of Database (src/database.py).                               *)
(*                                                                         *)
(* Time is counted in whole hours.  Every coroutine is cut at its awaits:  *)
(* a store access, the upstream probe (bot.get_file), the discovery call.  *)
(* Store accesses of the resolve/refresh path are taken to succeed (the    *)
(* collaborator contract of the persistence layer); the upstream may       *)
(* answer a probe in every way the Telegram client can.                    *)
(*                                                                         *)
(* Ingestion (process_channel_media), channel sync (sync_channel_content)  *)
(* and the stream resolver (get_file_stream) write or read the same        *)
(* stores; their store accesses can fail, and they run in specifications   *)
(* of their own (SpecIngest, SpecSync, SpecStream).  The /reset_device     *)
(* command runs in SpecReset.  The refresh task runs under fairness in     *)
(* SpecSweeper and SpecSweeperAccepted, and over a batch of two            *)
(* references, beside one request, in SpecBatch.                           *)
(***************************************************************************)
EXTENDS Integers, Sequences, FiniteSets, TLC

VARIABLES
    now,              \* datetime.utcnow(), in hours
    file_references,  \* the file_references collection, by reference_id
    strategy,         \* the discovery strategy in place
    pc,               \* where each caller's coroutine is suspended
    arg_reference_id, \* the argument of each request's get_fresh_file_id
    file_ref,         \* refresh_file_id's argument: the caller's copy
    pending,          \* the handle the caller is about to store
    expired_refs,     \* the sweeper's batch, from the current item on
    probe,            \* spy: the upstream's answer to the call's probe
    calls,            \* spy: the upstream operations the call has invoked
    result,           \* what the caller's last call returned
    failed_attempt,   \* spy: the reference as the request's previous call
                      \* read it, when that call's probe failed transiently
    channel_mappings, \* the channel_mappings collection, in insertion order
    media_files,      \* the media_files collection, by reference_id
    ingest,           \* the process_channel_media call in progress
    sync,             \* the sync_channel_content calls in progress
    stream,           \* what each request's get_file_stream returned
    users,            \* the users collection, by telegram id
    reset,            \* the /reset_device commands in progress
    performed,        \* spy: the resets each user has been granted
    validated         \* spy: the hour the stored handle of a reference was
                      \* last stored at ingestion, confirmed by a probe or
                      \* found by a discovery

vars == <<now, file_references, strategy, pc, arg_reference_id, file_ref,
          pending, expired_refs, probe, calls, result, failed_attempt,
          channel_mappings, media_files, ingest, sync, stream,
          users, reset, performed, validated>>

\* The state of the catalog side: channel mappings, media entries and the
\* two calls that write them.
catalog_vars == <<channel_mappings, media_files, ingest, sync>>

\* The state of the user accounts and of the commands that write them.
account_vars == <<users, reset, performed>>

\* The state of the callers of the resolve/refresh path.
resolve_vars == <<strategy, pc, arg_reference_id, file_ref, pending,
                  expired_refs, probe, calls, result, failed_attempt>>

\* ---------------------------------------------------------------- bounds
\* Last hour of the modelled clock.
MaxTime == 24

\* ------------------------------------------------------- program constants
\* StorageManager.file_refresh_interval, in hours.
file_refresh_interval == 23

\* ---------------------------------------------------------------- values
None == "None"
\* The retryable outcome the refresh contract asks for on a transient
\* upstream failure; no return statement of the code produces it.
TransientUpstreamError == "TransientUpstreamError"
\* A lookup that matched no document, and a timestamp that is not set.
NoDocument == [none |-> TRUE]
NoTime == -1
\* A call that is not in progress, and a get_file_stream that has not
\* returned.
NoCall == [pc |-> "idle"]
NoStream == [pending |-> TRUE]
ReferenceIds == {"ref_1"}
\* Chats the bot receives media from, and the courses they are mapped to.
Channels == {"channel_1", "channel_2"}
Courses == {"course_1", "course_2"}
\* The calls of the admin endpoint that can be in progress together.
Syncers == {"sync1", "sync2"}
\* Telegram users, and the /reset_device updates that can be in progress
\* together.
UserIds == {"user_1"}
Commands == {"cmd1", "cmd2"}
Handles == {"fileA", "fileB"}
\* The handle an ingestion stores; the other one is what a discovery finds.
IngestHandles == {"fileA"}
Requests == {"req1", "req2"}
Sweeper == "sweeper"
Callers == Requests \cup {Sweeper}

\* Answers of bot.get_file(handle): the file info, a TelegramError that says
\* the handle is invalid (BadRequest), a TelegramError that is transient
\* (NetworkError, TimedOut, RetryAfter), or an exception that is no
\* TelegramError (self.bot is None, a cancelled transport, ...).
ProbeOutcomes == {"ok", "rejected", "transient", "error"}
TelegramErrors == {"rejected", "transient"}

\* The discovery strategy plugged in behind find_file_in_channel: the
\* shipped one ("null", always None) or a replacement that can find a file.
Strategies == {"null", "plugged"}

\* ------------------------------------------------------------- database
\* Database.create_file_reference: stamps last_refreshed (and created_at,
\* which nothing of the subsystem reads again and the model leaves out).
db_create_file_reference(reference_data, t) ==
    [last_refreshed |-> t] @@ reference_data

\* Database.get_file_reference: find_one by reference_id, no other filter.
get_file_reference(store, reference_id) == store[reference_id]

\* Mutant: the update without its last_refreshed stamp.
update_file_reference_unstamped(store, reference_id, update_data, t) ==
    IF store[reference_id] = NoDocument
    THEN store
    ELSE [store EXCEPT ![reference_id] =
             [f \in DOMAIN @ |->
                 IF f \in DOMAIN update_data THEN update_data[f] ELSE @[f]]]

\* Mutant: the update leaves the reference without a refresh stamp.
update_file_reference_unset(store, reference_id, update_data, t) ==
    IF store[reference_id] = NoDocument
    THEN store
    ELSE LET set == [last_refreshed |-> NoTime] @@ update_data
         IN  [store EXCEPT ![reference_id] =
                 [f \in DOMAIN @ |-> IF f \in DOMAIN set THEN set[f] ELSE @[f]]]

\* Database.update_file_reference: $set of update_data, into which
\* last_refreshed = utcnow() is always written first; no matching document,
\* no change.
update_file_reference(store, reference_id, update_data, t) ==
    IF store[reference_id] = NoDocument
    THEN store
    ELSE LET set == [last_refreshed |-> t] @@ update_data
         IN  [store EXCEPT ![reference_id] =
                 [f \in DOMAIN @ |-> IF f \in DOMAIN set THEN set[f] ELSE @[f]]]

\* Mutant: the listing selects the references younger than the cutoff.
get_expired_file_references_younger(store, hours, t) ==
    {r \in DOMAIN store :
        store[r] # NoDocument /\ store[r].last_refreshed > t - hours}

\* Database.get_expired_file_references: last_refreshed < utcnow() - hours.
get_expired_file_references(store, hours, t) ==
    {r \in DOMAIN store :
        store[r] # NoDocument /\ store[r].last_refreshed < t - hours}

\* ------------------------------------------------------- storage manager
\* Mutant: the age in seconds compared with the interval in hours.
IsFresh_seconds(ref, t) ==
    /\ ref.last_refreshed # NoTime
    /\ (t - ref.last_refreshed) * 3600 < file_refresh_interval

\* get_fresh_file_id, lines 55-59: the stored handle is returned as is when
\* last_refreshed is set and younger than the refresh interval.
IsFresh(ref, t) ==
    /\ ref.last_refreshed # NoTime
    /\ t - ref.last_refreshed < file_refresh_interval

\* find_file_in_channel as shipped: logs and returns None.
find_file_in_channel(channel_id, filename, file_type) == None

\* What the origin channel holds, by upstream handle: the message each file
\* was posted in and the name and type it was posted under. Message 2 is a
\* second upload under the name and type of message 1.
channel_files ==
    [h \in Handles |->
        [channel_id |-> "channel_1",
         message_id |-> IF h = "fileA" THEN 1 ELSE 2,
         filename   |-> "lecture.mp4",
         file_type  |-> "video"]]

\* A discovery strategy put in its place: the handle of a file of the
\* channel that fits the three hints refresh_file_id passes on, or nothing.
discover(channel_id, filename, file_type) ==
    {h \in Handles : /\ channel_files[h].channel_id = channel_id
                     /\ channel_files[h].filename = filename
                     /\ channel_files[h].file_type = file_type}
        \cup {None}

\* refresh_file_id, lines 84-88: what the discovery call can return for the
\* caller's copy of the reference under the strategy in place.
DiscoveryResults(s, ref) ==
    IF s = "null"
    THEN {find_file_in_channel(ref.metadata.channel_id, ref.filename,
                               ref.file_type)}
    ELSE discover(ref.metadata.channel_id, ref.filename, ref.file_type)

\* refresh_file_id, lines 74-77: the update after a successful probe.
probe_update_data(current_file_id) ==
    [telegram_file_id |-> current_file_id]

\* Mutant: the discovery branch stores the handle it has just seen rejected.
discovery_update_data_current(current_file_id, new_file_id) ==
    [telegram_file_id |-> current_file_id]

\* refresh_file_id, lines 91-94: the update after a successful discovery.
discovery_update_data(current_file_id, new_file_id) ==
    [telegram_file_id |-> new_file_id]

\* Mutant: a reference whose discovery fails is deactivated.
refresh_not_found_deactivate(store, ref) ==
    [store EXCEPT ![ref.reference_id].is_active = FALSE]

\* refresh_file_id, lines 97-98: nothing found, the store is left alone.
refresh_not_found(store, ref) == store

\* Mutant: a refresh of the refresh task that fails raises into the loop,
\* whose handler goes to the five-minute sleep.
Finish_raising(c, v, o) ==
    /\ pc' = [pc EXCEPT ![c] = IF c = Sweeper
                               THEN (IF v = None THEN "backoff" ELSE "pace")
                               ELSE "done"]
    /\ result' = [result EXCEPT ![c] = IF c = Sweeper THEN None ELSE v]
    /\ file_ref' = [file_ref EXCEPT ![c] = NoDocument]
    /\ pending' = [pending EXCEPT ![c] = None]
    /\ failed_attempt' =
           IF c = Sweeper THEN failed_attempt
           ELSE [failed_attempt EXCEPT ![c] =
                    IF o = "transient" THEN file_ref[c] ELSE NoDocument]

\* The end of a refresh whose probe was answered o: a request returns v to
\* its caller, the sweeper drops the value and goes to its pacing sleep.
Finish(c, v, o) ==
    /\ pc' = [pc EXCEPT ![c] = IF c = Sweeper THEN "pace" ELSE "done"]
    /\ result' = [result EXCEPT ![c] = IF c = Sweeper THEN None ELSE v]
    /\ file_ref' = [file_ref EXCEPT ![c] = NoDocument]
    /\ pending' = [pending EXCEPT ![c] = None]
    /\ failed_attempt' =
           IF c = Sweeper THEN failed_attempt
           ELSE [failed_attempt EXCEPT ![c] =
                    IF o = "transient" THEN file_ref[c] ELSE NoDocument]

\* The state after start-up apart from the clock and the references: no
\* call in progress, the refresh task (app.py, line 71) at its first
\* listing, empty collections.
InitCalls ==
    /\ strategy \in Strategies
    /\ pc = [c \in Callers |-> IF c = Sweeper THEN "scan" ELSE "idle"]
    /\ arg_reference_id = [p \in Requests |-> None]
    /\ file_ref = [c \in Callers |-> NoDocument]
    /\ probe = [c \in Callers |-> None]
    /\ pending = [c \in Callers |-> None]
    /\ calls = [c \in Callers |-> {}]
    /\ result = [c \in Callers |-> None]
    /\ failed_attempt = [p \in Requests |-> NoDocument]
    /\ expired_refs = <<>>
    /\ channel_mappings = <<>>
    /\ media_files = [r \in ReferenceIds |-> NoDocument]
    /\ ingest = NoCall
    /\ sync = [s \in Syncers |-> NoCall]
    /\ stream = [p \in Requests |-> NoStream]
    /\ users = [u \in UserIds |-> NoDocument]
    /\ reset = [c \in Commands |-> NoCall]
    /\ performed = [u \in UserIds |-> 0]

Init ==
    /\ now = 0
    /\ file_references = [r \in ReferenceIds |-> NoDocument]
    /\ validated = [r \in ReferenceIds |-> NoTime]
    /\ InitCalls

\* The wall clock advances.
Tick ==
    /\ now < MaxTime
    /\ now' = now + 1
    /\ UNCHANGED <<file_references, strategy, pc, arg_reference_id, file_ref,
                   pending, expired_refs, probe, calls, result, failed_attempt>>
    /\ UNCHANGED <<catalog_vars, stream, account_vars, validated>>

\* StorageManager.create_file_reference, lines 31-40: the document handed
\* to the database.
reference_data(r, telegram_file_id, file_type, filename, file_size, course_id, metadata) ==
    [reference_id     |-> r,
     telegram_file_id |-> telegram_file_id,
     file_type        |-> file_type,
     filename         |-> filename,
     file_size        |-> file_size,
     course_id        |-> course_id,
     metadata         |-> metadata,
     is_active        |-> TRUE]

\* StorageManager.create_file_reference: a new reference under a minted id
\* (generate_reference_id draws one no reference has yet).
create_file_reference(r, h) ==
    /\ file_references[r] = NoDocument
    /\ file_references' = [file_references EXCEPT ![r] =
           db_create_file_reference(
               reference_data(r, h, channel_files[h].file_type,
                              channel_files[h].filename, 1, "course_1",
                              [channel_id |-> channel_files[h].channel_id,
                               message_id |-> channel_files[h].message_id]),
               now)]
    /\ validated' = [validated EXCEPT ![r] = now]
    /\ UNCHANGED <<now, strategy, pc, arg_reference_id, file_ref, pending,
                   expired_refs, probe, calls, result, failed_attempt>>
    /\ UNCHANGED <<catalog_vars, stream, account_vars>>

\* Mutant: the delete removes the document from the collection.
delete_file_reference_hard(r) ==
    /\ file_references[r] # NoDocument
    /\ file_references' = [file_references EXCEPT ![r] = NoDocument]
    /\ UNCHANGED <<now, strategy, pc, arg_reference_id, file_ref, pending,
                   expired_refs, probe, calls, result, failed_attempt>>
    /\ UNCHANGED <<catalog_vars, stream, account_vars, validated>>

\* StorageManager.delete_file_reference: the soft delete.
delete_file_reference(r) ==
    /\ file_references[r] # NoDocument
    /\ file_references' =
           update_file_reference(file_references, r, [is_active |-> FALSE], now)
    /\ UNCHANGED <<now, strategy, pc, arg_reference_id, file_ref, pending,
                   expired_refs, probe, calls, result, failed_attempt>>
    /\ UNCHANGED <<catalog_vars, stream, account_vars, validated>>

\* get_fresh_file_id up to its first upstream call: the lookup, the
\* freshness test, and either a return or the entry into refresh_file_id.
get_fresh_file_id(p, r) ==
    /\ p \in Requests
    /\ pc[p] = "idle"
    /\ arg_reference_id' = [arg_reference_id EXCEPT ![p] = r]
    /\ LET ref == get_file_reference(file_references, r)
       IN  IF ref = NoDocument
           THEN /\ result' = [result EXCEPT ![p] = None]
                /\ pc' = [pc EXCEPT ![p] = "done"]
                /\ failed_attempt' = [failed_attempt EXCEPT ![p] = NoDocument]
                /\ UNCHANGED file_ref
           ELSE IF IsFresh(ref, now)
           THEN /\ result' = [result EXCEPT ![p] = ref.telegram_file_id]
                /\ pc' = [pc EXCEPT ![p] = "done"]
                /\ failed_attempt' = [failed_attempt EXCEPT ![p] = NoDocument]
                /\ UNCHANGED file_ref
           ELSE /\ file_ref' = [file_ref EXCEPT ![p] = ref]
                /\ pc' = [pc EXCEPT ![p] = "probe"]
                /\ UNCHANGED <<result, failed_attempt>>
    /\ UNCHANGED <<now, file_references, strategy, pending, expired_refs,
                   probe, calls>>
    /\ UNCHANGED <<catalog_vars, stream, account_vars, validated>>

\* The caller of get_fresh_file_id takes the returned value and is ready
\* for its next call.
request_end(p) ==
    /\ p \in Requests
    /\ pc[p] = "done"
    /\ pc' = [pc EXCEPT ![p] = "idle"]
    /\ arg_reference_id' = [arg_reference_id EXCEPT ![p] = None]
    /\ probe' = [probe EXCEPT ![p] = None]
    /\ calls' = [calls EXCEPT ![p] = {}]
    /\ result' = [result EXCEPT ![p] = None]
    /\ UNCHANGED <<now, file_references, strategy, file_ref, pending,
                   expired_refs, failed_attempt>>
    /\ stream' = [stream EXCEPT ![p] = NoStream]
    /\ UNCHANGED <<catalog_vars, account_vars, validated>>

\* refresh_file_id, lines 69-81 and 100-102: bot.get_file on the handle of
\* the caller's copy of the reference, and the branch its answer selects.
refresh_probe(c, o) ==
    /\ pc[c] = "probe"
    /\ probe' = [probe EXCEPT ![c] = o]
    /\ calls' = [calls EXCEPT ![c] = @ \cup {"probe"}]
    /\ IF o = "ok"
       THEN /\ pending' = [pending EXCEPT ![c] = file_ref[c].telegram_file_id]
            /\ pc' = [pc EXCEPT ![c] = "update"]
            /\ UNCHANGED <<result, file_ref, failed_attempt>>
       ELSE IF o \in TelegramErrors
       THEN /\ pc' = [pc EXCEPT ![c] = "discover"]
            /\ UNCHANGED <<pending, result, file_ref, failed_attempt>>
       ELSE Finish(c, None, o)
    /\ UNCHANGED <<now, file_references, strategy, arg_reference_id, expired_refs>>
    /\ UNCHANGED <<catalog_vars, stream, account_vars, validated>>

\* refresh_file_id, lines 83-98: the discovery call and the branch on its
\* result.
refresh_discover(c, f) ==
    /\ pc[c] = "discover"
    /\ f \in DiscoveryResults(strategy, file_ref[c])
    /\ calls' = [calls EXCEPT ![c] = @ \cup {"discover"}]
    /\ IF f # None
       THEN /\ pending' = [pending EXCEPT ![c] = f]
            /\ pc' = [pc EXCEPT ![c] = "update"]
            /\ UNCHANGED <<result, file_ref, file_references, failed_attempt>>
       ELSE /\ file_references' = refresh_not_found(file_references, file_ref[c])
            /\ Finish(c, None, probe[c])
    /\ UNCHANGED <<now, strategy, arg_reference_id, probe, expired_refs>>
    /\ UNCHANGED <<catalog_vars, stream, account_vars, validated>>

\* refresh_file_id, lines 74-78 and 91-95: the store update with the handle
\* chosen by the branch, and the return of that handle.
refresh_update(c) ==
    /\ pc[c] = "update"
    /\ file_references' =
           update_file_reference(
               file_references, file_ref[c].reference_id,
               IF probe[c] = "ok"
               THEN probe_update_data(pending[c])
               ELSE discovery_update_data(file_ref[c].telegram_file_id, pending[c]),
               now)
    /\ validated' = [validated EXCEPT ![file_ref[c].reference_id] = now]
    /\ Finish(c, pending[c], probe[c])
    /\ UNCHANGED <<now, strategy, arg_reference_id, probe, calls, expired_refs>>
    /\ UNCHANGED <<catalog_vars, stream, account_vars>>

\* The orders in which a cursor can hand out the documents of a set.
Orders(S) ==
    {s \in [1..Cardinality(S) -> S] : \A i, j \in DOMAIN s : s[i] = s[j] => i = j}

\* The sweeper takes the next reference of its batch into refresh_file_id.
SweeperTake(batch) ==
    /\ expired_refs' = batch
    /\ file_ref' = [file_ref EXCEPT ![Sweeper] = Head(batch)]
    /\ probe' = [probe EXCEPT ![Sweeper] = None]
    /\ calls' = [calls EXCEPT ![Sweeper] = {}]
    /\ pc' = [pc EXCEPT ![Sweeper] = "probe"]

\* start_file_refresh_task, lines 291 and 306-311: the hour-long sleep or
\* the five-minute sleep after an error is over, the next cycle starts.
sweeper_wake ==
    /\ pc[Sweeper] \in {"idle", "backoff"}
    /\ pc' = [pc EXCEPT ![Sweeper] = "scan"]
    /\ UNCHANGED <<now, file_references, strategy, arg_reference_id, file_ref,
                   pending, expired_refs, probe, calls, result, failed_attempt>>
    /\ UNCHANGED <<catalog_vars, stream, account_vars, validated>>

\* Mutant: a failed listing ends the refresh task.
sweeper_scan_exits(ok, order) ==
    /\ pc[Sweeper] = "scan"
    /\ IF ~ok
       THEN /\ pc' = [pc EXCEPT ![Sweeper] = "exited"]
            /\ UNCHANGED <<expired_refs, file_ref, probe, calls>>
       ELSE /\ order \in Orders(get_expired_file_references(
                                    file_references, file_refresh_interval, now))
            /\ IF order = <<>>
               THEN /\ pc' = [pc EXCEPT ![Sweeper] = "idle"]
                    /\ UNCHANGED <<expired_refs, file_ref, probe, calls>>
               ELSE SweeperTake([i \in DOMAIN order |-> file_references[order[i]]])
    /\ UNCHANGED <<now, file_references, strategy, arg_reference_id, pending,
                   result, failed_attempt>>
    /\ UNCHANGED <<catalog_vars, stream, account_vars, validated>>

\* start_file_refresh_task, lines 292-296 and 309-311: the listing fails
\* (ok = FALSE), which sends the loop to its five-minute sleep, or returns
\* the batch.
sweeper_scan(ok, order) ==
    /\ pc[Sweeper] = "scan"
    /\ IF ~ok
       THEN /\ pc' = [pc EXCEPT ![Sweeper] = "backoff"]
            /\ UNCHANGED <<expired_refs, file_ref, probe, calls>>
       ELSE /\ order \in Orders(get_expired_file_references(
                                    file_references, file_refresh_interval, now))
            /\ IF order = <<>>
               THEN /\ pc' = [pc EXCEPT ![Sweeper] = "idle"]
                    /\ UNCHANGED <<expired_refs, file_ref, probe, calls>>
               ELSE SweeperTake([i \in DOMAIN order |-> file_references[order[i]]])
    /\ UNCHANGED <<now, file_references, strategy, arg_reference_id, pending,
                   result, failed_attempt>>
    /\ UNCHANGED <<catalog_vars, stream, account_vars, validated>>

\* start_file_refresh_task, lines 296-307: after the pacing sleep, the next
\* reference of the batch, or the hour-long sleep when the batch is done.
sweeper_pace ==
    /\ pc[Sweeper] = "pace"
    /\ IF Tail(expired_refs) = <<>>
       THEN /\ expired_refs' = <<>>
            /\ pc' = [pc EXCEPT ![Sweeper] = "idle"]
            /\ probe' = [probe EXCEPT ![Sweeper] = None]
            /\ calls' = [calls EXCEPT ![Sweeper] = {}]
            /\ UNCHANGED file_ref
       ELSE SweeperTake(Tail(expired_refs))
    /\ UNCHANGED <<now, file_references, strategy, arg_reference_id, pending,
                   result, failed_attempt>>
    /\ UNCHANGED <<catalog_vars, stream, account_vars, validated>>

Next ==
    \/ Tick
    \/ \E r \in ReferenceIds, h \in IngestHandles : create_file_reference(r, h)
    \/ \E r \in ReferenceIds : delete_file_reference(r)
    \/ \E p \in Requests, r \in ReferenceIds : get_fresh_file_id(p, r)
    \/ \E p \in Requests : request_end(p)
    \/ \E c \in Callers, o \in ProbeOutcomes : refresh_probe(c, o)
    \/ \E c \in Callers, f \in Handles \cup {None} : refresh_discover(c, f)
    \/ \E c \in Callers : refresh_update(c)
    \/ \E ok \in BOOLEAN, order \in UNION {Orders(S) : S \in SUBSET ReferenceIds} :
           sweeper_scan(ok, order)
    \/ sweeper_pace
    \/ sweeper_wake

Spec == Init /\ [][Next]_vars

\* One request at a time and nothing else at work on the store: the
\* sequential scenarios of a single caller.
FirstRequest == "req1"
NextSequential ==
    \/ Tick
    \/ \E r \in ReferenceIds, h \in IngestHandles : create_file_reference(r, h)
    \/ \E r \in ReferenceIds : get_fresh_file_id(FirstRequest, r)
    \/ request_end(FirstRequest)
    \/ \E o \in ProbeOutcomes : refresh_probe(FirstRequest, o)
    \/ \E f \in Handles \cup {None} : refresh_discover(FirstRequest, f)
    \/ refresh_update(FirstRequest)

SpecSequential == Init /\ [][NextSequential]_vars

\* --------------------------------------------------------------- sweeper
\* The steps of the refresh task.
SweeperSteps ==
    \/ sweeper_wake
    \/ \E ok \in BOOLEAN, order \in UNION {Orders(S) : S \in SUBSET ReferenceIds} :
           sweeper_scan(ok, order)
    \/ \E o \in ProbeOutcomes : refresh_probe(Sweeper, o)
    \/ \E f \in Handles \cup {None} : refresh_discover(Sweeper, f)
    \/ refresh_update(Sweeper)
    \/ sweeper_pace

\* The refresh task alone with ingestion, deletion and the clock: no
\* resolve is ever called.
NextSweeper ==
    \/ Tick
    \/ \E r \in ReferenceIds, h \in IngestHandles : create_file_reference(r, h)
    \/ \E r \in ReferenceIds : delete_file_reference(r)
    \/ SweeperSteps

\* The event loop resumes the task whenever its sleep or its await is over.
SpecSweeper == Init /\ [][NextSweeper]_vars /\ WF_vars(SweeperSteps)

\* The listing does not fail for ever.
ListingSucceeds ==
    \E order \in UNION {Orders(S) : S \in SUBSET ReferenceIds} :
        sweeper_scan(TRUE, order)

\* The upstream accepts the handle: a probe of the task is not refused for
\* ever.
UpstreamAccepts == refresh_probe(Sweeper, "ok")

SpecSweeperAccepted ==
    /\ Init /\ [][NextSweeper]_vars
    /\ WF_vars(SweeperSteps)
    /\ SF_vars(ListingSucceeds)
    /\ SF_vars(UpstreamAccepts)

\* ----------------------------------------------------------------- batch
\* Two references, so that a cycle of the refresh task has a batch with a
\* later item, and one request resolving beside the task.
BatchReferenceIds == {"ref_1", "ref_2"}

InitBatch ==
    /\ now = 0
    /\ file_references = [r \in BatchReferenceIds |-> NoDocument]
    /\ validated = [r \in BatchReferenceIds |-> NoTime]
    /\ InitCalls

NextBatch ==
    \/ Tick
    \/ \E r \in BatchReferenceIds, h \in IngestHandles : create_file_reference(r, h)
    \/ \E r \in BatchReferenceIds : get_fresh_file_id(FirstRequest, r)
    \/ request_end(FirstRequest)
    \/ \E c \in {FirstRequest, Sweeper}, o \in ProbeOutcomes : refresh_probe(c, o)
    \/ \E c \in {FirstRequest, Sweeper}, f \in Handles \cup {None} : refresh_discover(c, f)
    \/ \E c \in {FirstRequest, Sweeper} : refresh_update(c)
    \/ \E ok \in BOOLEAN, order \in UNION {Orders(S) : S \in SUBSET BatchReferenceIds} :
           sweeper_scan(ok, order)
    \/ sweeper_pace
    \/ sweeper_wake

SpecBatch == InitBatch /\ [][NextBatch]_vars

\* ---------------------------------------------------------------- stream
\* Lengths of the body the file server sends for a download. The code ties
\* none of them to the file_size declared at ingestion.
ContentLengths == {1, 2}

\* get_file_stream's None: no handle, or the download failed.
NoTuple == [none |-> TRUE]

\* get_file_stream, lines 139-143: the tuple returned after a download.
stream_result(content, file_ref_now) ==
    [content |-> content, filename |-> file_ref_now.filename,
     size |-> content]

\* get_file_stream, lines 126-151, after get_fresh_file_id has returned:
\* None without a handle; else bot.get_file and the download, which fail
\* or answer another status (fetched = FALSE), or bring a body of the given
\* length, returned with the filename read back from the store.
get_file_stream(p, fetched, content) ==
    /\ p \in Requests
    /\ pc[p] = "done"
    /\ stream[p] = NoStream
    /\ stream' = [stream EXCEPT ![p] =
           IF result[p] = None \/ ~fetched
           THEN NoTuple
           ELSE stream_result(
                    content,
                    get_file_reference(file_references, arg_reference_id[p]))]
    /\ UNCHANGED <<now, file_references, resolve_vars, catalog_vars,
                   account_vars, validated>>

\* One caller that resolves and streams, nothing else at work on the store.
NextStream ==
    \/ NextSequential
    \/ \E fetched \in BOOLEAN, content \in ContentLengths :
           get_file_stream(FirstRequest, fetched, content)

SpecStream == Init /\ [][NextStream]_vars

\* --------------------------------------------------------------- catalog
\* Chat types process_channel_media goes on with (line 220).
GroupChatTypes == {"group", "supergroup", "channel"}

\* The mime types a posted file declares, and the test `word in mime_type`.
MimeTypes == {"video/mp4", "application/pdf", "application/zip"}
Contains(mime_type, word) ==
    \/ mime_type = "video/mp4" /\ word = "video"
    \/ mime_type = "application/pdf" /\ word = "pdf"

\* An update without a message, and the updates that carry one: a document
\* with any mime type or none, a video, or a photo.
NoMessage == [message |-> FALSE]
ChannelUpdates ==
    {NoMessage} \cup
    [message : {TRUE}, chat_type : {"supergroup", "private"},
     chat_id : Channels, payload : {"document"},
     mime_type : MimeTypes \cup {None}, file_id : IngestHandles] \cup
    [message : {TRUE}, chat_type : {"supergroup", "private"},
     chat_id : Channels, payload : {"video"},
     mime_type : {"video/mp4", None}, file_id : IngestHandles] \cup
    [message : {TRUE}, chat_type : {"supergroup", "private"},
     chat_id : Channels, payload : {"photo"},
     mime_type : {None}, file_id : IngestHandles]

\* Mutant: the lookup without its channel_id filter.
get_channel_mapping_any(store, channel_id) ==
    IF store = <<>> THEN NoDocument ELSE store[1]

\* Database.get_channel_mapping: find_one by channel_id, no other filter.
get_channel_mapping(store, channel_id) ==
    IF \A i \in DOMAIN store : store[i].channel_id # channel_id
    THEN NoDocument
    ELSE store[CHOOSE i \in DOMAIN store :
                   /\ store[i].channel_id = channel_id
                   /\ \A j \in DOMAIN store :
                          store[j].channel_id = channel_id => i <= j]

\* Mutant: every document payload filed as a document.
classify_by_payload(payload, mime_type) ==
    IF payload = "document" THEN "document"
    ELSE IF payload = "video" THEN "video"
    ELSE None

\* process_channel_media, lines 229-245: the file type of the payload, None
\* when the message carries neither a document nor a video.
classify(payload, mime_type) ==
    IF payload = "document"
    THEN IF mime_type # None
         THEN IF Contains(mime_type, "video") THEN "video"
              ELSE IF Contains(mime_type, "pdf") THEN "pdf"
              ELSE "document"
         ELSE "document"
    ELSE IF payload = "video" THEN "video"
    ELSE None

\* process_channel_media, lines 266-277: the catalog entry of a reference.
media_data(r, u, file_type, course_id) ==
    [reference_id     |-> r,
     course_id        |-> course_id,
     file_type        |-> file_type,
     filename         |-> channel_files[u.file_id].filename,
     file_size        |-> 1,
     telegram_file_id |-> u.file_id,
     channel_id       |-> u.chat_id,
     message_id       |-> channel_files[u.file_id].message_id,
     order            |-> 0,
     is_active        |-> TRUE]

\* The call has returned: what it was given, the reference it created, and
\* the await whose exception its except branch logged (None: it did not
\* run).
Returned(u, r, failed) ==
    [pc |-> "returned", update |-> u, reference_id |-> r, failed |-> failed]

\* process_channel_media, lines 215-247: the checks on the message, the
\* mapping lookup (which the store may fail, ok = FALSE) and the
\* classification; the call returns or goes on to create the reference.
process_channel_media(u, ok) ==
    /\ ingest.pc = "idle"
    /\ ingest' =
         IF ~u.message THEN Returned(u, None, None)
         ELSE IF u.chat_type \notin GroupChatTypes THEN Returned(u, None, None)
         ELSE IF ~ok THEN Returned(u, None, "get_channel_mapping")
         ELSE LET mapping == get_channel_mapping(channel_mappings, u.chat_id)
                  file_type == classify(u.payload, u.mime_type)
              IN  IF mapping = NoDocument THEN Returned(u, None, None)
                  ELSE IF file_type = None THEN Returned(u, None, None)
                  ELSE [pc |-> "reference", update |-> u, mapping |-> mapping,
                        file_type |-> file_type]
    /\ UNCHANGED <<now, file_references, resolve_vars, channel_mappings,
                   media_files, sync, stream,
                   account_vars, validated>>

\* process_channel_media, lines 250-264, in create_file_reference: the
\* insert of the reference under a minted id, or its failure.
ingest_create_reference(r, ok) ==
    /\ ingest.pc = "reference"
    /\ file_references[r] = NoDocument
    /\ IF ok
       THEN /\ file_references' = [file_references EXCEPT ![r] =
                   db_create_file_reference(
                       reference_data(
                           r, ingest.update.file_id, ingest.file_type,
                           channel_files[ingest.update.file_id].filename, 1,
                           ingest.mapping.course_id,
                           [channel_id |-> ingest.update.chat_id,
                            message_id |->
                                channel_files[ingest.update.file_id].message_id]),
                       now)]
            /\ validated' = [validated EXCEPT ![r] = now]
            /\ ingest' = [ingest EXCEPT !.pc = "media"] @@ [reference_id |-> r]
       ELSE /\ ingest' = Returned(ingest.update, None, "create_file_reference")
            /\ UNCHANGED <<file_references, validated>>
    /\ UNCHANGED <<now, resolve_vars, channel_mappings, media_files, sync,
                   stream, account_vars>>

\* process_channel_media, lines 266-281: the insert of the catalog entry,
\* or its failure, which the except branch logs.
ingest_create_media(ok) ==
    /\ ingest.pc = "media"
    /\ IF ok
       THEN /\ media_files' = [media_files EXCEPT ![ingest.reference_id] =
                   media_data(ingest.reference_id, ingest.update,
                              ingest.file_type, ingest.mapping.course_id)]
            /\ ingest' = Returned(ingest.update, ingest.reference_id, None)
       ELSE /\ ingest' = Returned(ingest.update, ingest.reference_id,
                                   "create_media_file")
            /\ UNCHANGED media_files
    /\ UNCHANGED <<now, file_references, resolve_vars, channel_mappings, sync,
                   stream,
                   account_vars, validated>>

\* The handler that awaited process_channel_media is done with the update.
ingest_end ==
    /\ ingest.pc = "returned"
    /\ ingest' = NoCall
    /\ UNCHANGED <<now, file_references, resolve_vars, channel_mappings,
                   media_files, sync, stream,
                   account_vars, validated>>

\* The documents of the collection that carry the channel_id, by position.
MappingsOf(store, channel_id) ==
    {i \in DOMAIN store : store[i].channel_id = channel_id}

\* Database.create_channel_mapping: the document as inserted, stamped with
\* last_synced (and created_at, which nothing reads again).
db_create_channel_mapping(mapping_data, t) ==
    [last_synced |-> t] @@ mapping_data

\* Mutant: the collection without its unique index on channel_id.
accepts_channel_mapping_unindexed(store, channel_id) == TRUE

\* create_indexes, line 68: the unique index on channel_id lets insert_one
\* through only when no document of the collection carries the channel_id.
accepts_channel_mapping(store, channel_id) ==
    MappingsOf(store, channel_id) = {}

\* Database.update_channel_sync: update_one sets last_synced on the first
\* document of the channel; no such document, no change.
update_channel_sync(store, channel_id, t) ==
    IF MappingsOf(store, channel_id) = {}
    THEN store
    ELSE LET i == CHOOSE k \in MappingsOf(store, channel_id) :
                      \A j \in MappingsOf(store, channel_id) : k <= j
         IN  [store EXCEPT ![i].last_synced = t]

\* sync_channel_content, lines 174-178: the mapping a sync creates.
mapping_data(channel_id, course_id) ==
    [channel_id |-> channel_id, course_id |-> course_id, is_active |-> TRUE]

\* The sync has returned its result dictionary: success, and with a failure
\* the await that raised.
Synced(channel_id, course_id, success, error) ==
    [pc |-> "returned", channel_id |-> channel_id, course_id |-> course_id,
     success |-> success, error |-> error]

\* sync_channel_content, lines 169-172: the mapping lookup, which the store
\* may fail; a channel without a mapping gets one next.
sync_channel_content(s, channel_id, course_id, ok) ==
    /\ sync[s].pc = "idle"
    /\ sync' = [sync EXCEPT ![s] =
         IF ~ok THEN Synced(channel_id, course_id, FALSE, "get_channel_mapping")
         ELSE [pc |-> IF get_channel_mapping(channel_mappings, channel_id)
                            = NoDocument
                      THEN "create" ELSE "update",
               channel_id |-> channel_id, course_id |-> course_id]]
    /\ UNCHANGED <<now, file_references, resolve_vars, channel_mappings,
                   media_files, ingest, stream,
                   account_vars, validated>>

\* sync_channel_content, lines 173-179: the insert of the new mapping, which
\* the store may fail and the unique index may refuse.
sync_create_mapping(s, ok) ==
    /\ sync[s].pc = "create"
    /\ IF ~ok
       THEN /\ sync' = [sync EXCEPT ![s] =
                   Synced(sync[s].channel_id, sync[s].course_id, FALSE,
                          "create_channel_mapping")]
            /\ UNCHANGED channel_mappings
       ELSE IF accepts_channel_mapping(channel_mappings, sync[s].channel_id)
       THEN /\ channel_mappings' = Append(channel_mappings,
                   db_create_channel_mapping(
                       mapping_data(sync[s].channel_id, sync[s].course_id), now))
            /\ sync' = [sync EXCEPT ![s].pc = "update"]
       ELSE /\ sync' = [sync EXCEPT ![s] =
                   Synced(sync[s].channel_id, sync[s].course_id, FALSE,
                          "DuplicateKeyError")]
            /\ UNCHANGED channel_mappings
    /\ UNCHANGED <<now, file_references, resolve_vars, media_files, ingest,
                   stream,
                   account_vars, validated>>

\* sync_channel_content, lines 181-203: get_chat, whose failure is only
\* logged, then update_channel_sync and the success result.
sync_update(s, ok) ==
    /\ sync[s].pc = "update"
    /\ IF ok
       THEN /\ channel_mappings' =
                   update_channel_sync(channel_mappings, sync[s].channel_id, now)
            /\ sync' = [sync EXCEPT ![s] =
                   Synced(sync[s].channel_id, sync[s].course_id, TRUE, None)]
       ELSE /\ sync' = [sync EXCEPT ![s] =
                   Synced(sync[s].channel_id, sync[s].course_id, FALSE,
                          "update_channel_sync")]
            /\ UNCHANGED channel_mappings
    /\ UNCHANGED <<now, file_references, resolve_vars, media_files, ingest,
                   stream,
                   account_vars, validated>>

\* The admin endpoint has sent the result of the sync.
sync_end(s) ==
    /\ sync[s].pc = "returned"
    /\ sync' = [sync EXCEPT ![s] = NoCall]
    /\ UNCHANGED <<now, file_references, resolve_vars, channel_mappings,
                   media_files, ingest, stream,
                   account_vars, validated>>

\* An administrator takes a channel out of ingestion: the mapping stays,
\* its is_active goes to false.
deactivate_channel_mapping(channel_id) ==
    /\ \E i \in MappingsOf(channel_mappings, channel_id) :
           /\ channel_mappings[i].is_active
           /\ channel_mappings' =
                  [channel_mappings EXCEPT ![i].is_active = FALSE]
    /\ UNCHANGED <<now, file_references, resolve_vars, media_files, ingest,
                   sync, stream,
                   account_vars, validated>>

\* The steps of the sync call s.
SyncSteps(s) ==
    \/ \E ch \in Channels, co \in Courses, ok \in BOOLEAN :
           sync_channel_content(s, ch, co, ok)
    \/ \E ok \in BOOLEAN : sync_create_mapping(s, ok)
    \/ \E ok \in BOOLEAN : sync_update(s, ok)
    \/ sync_end(s)

\* Ingestion and channel administration, one call of each at a time and
\* one course, without the resolve path.
FirstSyncer == "sync1"
FirstCourse == "course_1"
NextIngest ==
    \/ \E u \in ChannelUpdates, ok \in BOOLEAN : process_channel_media(u, ok)
    \/ \E r \in ReferenceIds, ok \in BOOLEAN : ingest_create_reference(r, ok)
    \/ \E ok \in BOOLEAN : ingest_create_media(ok)
    \/ ingest_end
    \/ \E ch \in Channels, ok \in BOOLEAN :
           sync_channel_content(FirstSyncer, ch, FirstCourse, ok)
    \/ \E ok \in BOOLEAN : sync_create_mapping(FirstSyncer, ok)
    \/ \E ok \in BOOLEAN : sync_update(FirstSyncer, ok)
    \/ sync_end(FirstSyncer)
    \/ \E ch \in Channels : deactivate_channel_mapping(ch)

SpecIngest == Init /\ [][NextIngest]_vars

\* The sync calls of the admin endpoint, interleaved at their awaits.
NextSync == \E s \in Syncers : SyncSteps(s)

SpecSync == Init /\ [][NextSync]_vars

\* -------------------------------------------------------------- accounts
\* reset_device_command, line 171: the resets a user may grant themselves.
MaxResets == 2

\* Database.create_user: the account of a user, with no reset used yet.
create_user(u) ==
    /\ users[u] = NoDocument
    /\ users' = [users EXCEPT ![u] =
           [telegram_id |-> u, device_reset_count |-> 0]]
    /\ UNCHANGED <<now, file_references, resolve_vars, catalog_vars, stream,
                   reset, performed, validated>>

\* The command has replied.
Replied(u, reply) == [pc |-> "returned", user |-> u, reply |-> reply]

\* reset_device_command, lines 162-178: the user lookup and the test of
\* the count it read against the limit.
reset_device_command(c, u) ==
    /\ reset[c].pc = "idle"
    /\ reset' = [reset EXCEPT ![c] =
         IF users[u] = NoDocument THEN Replied(u, "not_found")
         ELSE IF users[u].device_reset_count >= MaxResets
         THEN Replied(u, "limit")
         ELSE [pc |-> "get_user", user |-> u,
               reset_count |-> users[u].device_reset_count]]
    /\ UNCHANGED <<now, file_references, resolve_vars, catalog_vars, stream,
                   users, performed, validated>>

\* Database.reset_user_device, lines 134-136: its own read of the user.
reset_get_user(c) ==
    /\ reset[c].pc = "get_user"
    /\ reset' = [reset EXCEPT ![c] =
         [pc |-> "update_user", user |-> reset[c].user,
          reset_count |-> reset[c].reset_count,
          device_reset_count |-> users[reset[c].user].device_reset_count]]
    /\ UNCHANGED <<now, file_references, resolve_vars, catalog_vars, stream,
                   users, performed, validated>>

\* Database.reset_user_device, lines 138-144, and reset_device_command,
\* lines 183-199: the count that was read, plus one, is written, and the
\* command replies that the reset is done.
reset_update_user(c) ==
    /\ reset[c].pc = "update_user"
    /\ users' = [users EXCEPT ![reset[c].user].device_reset_count =
                     reset[c].device_reset_count + 1]
    /\ performed' = [performed EXCEPT ![reset[c].user] = @ + 1]
    /\ reset' = [reset EXCEPT ![c] = Replied(reset[c].user, "success")]
    /\ UNCHANGED <<now, file_references, resolve_vars, catalog_vars, stream,
                   validated>>

\* The update of the command has been handled.
reset_end(c) ==
    /\ reset[c].pc = "returned"
    /\ reset' = [reset EXCEPT ![c] = NoCall]
    /\ UNCHANGED <<now, file_references, resolve_vars, catalog_vars, stream,
                   users, performed, validated>>

\* The /reset_device commands of the users, interleaved at their awaits.
NextReset ==
    \/ \E u \in UserIds : create_user(u)
    \/ \E c \in Commands, u \in UserIds : reset_device_command(c, u)
    \/ \E c \in Commands : reset_get_user(c)
    \/ \E c \in Commands : reset_update_user(c)
    \/ \E c \in Commands : reset_end(c)

SpecReset == Init /\ [][NextReset]_vars

\* ------------------------------------------------------------------ claims
\* The steps of a caller, told by where its coroutine stands before and after.
Starts(p)     == pc[p] = "idle" /\ pc'[p] # "idle"
Probes(c)     == pc[c] = "probe" /\ pc'[c] # "probe"
Discovers(c)  == pc[c] = "discover" /\ pc'[c] # "discover"
Updates(c)    == pc[c] = "update" /\ pc'[c] # "update"

Age(ref) == now - ref.last_refreshed

\* C1: a resolve of a reference younger than the 23-hour interval returns
\* the stored handle in the same step, with no probe and no discovery, and
\* leaves the reference store as it was.
C1_FreshResolveReturnsStored ==
    [][\A p \in Requests :
         LET r == arg_reference_id'[p] IN
         (Starts(p) /\ file_references[r] # NoDocument
                    /\ Age(file_references[r]) < 23)
         => /\ pc'[p] = "done"
            /\ result'[p] = file_references[r].telegram_file_id
            /\ calls'[p] = {}
            /\ probe'[p] = None
            /\ file_references' = file_references]_vars

\* C1 witness: a request has returned the handle of a reference that is 22
\* hours old without any upstream call.
C1_Witness ==
    \E p \in Requests :
        /\ pc[p] = "done" /\ calls[p] = {}
        /\ arg_reference_id[p] \in ReferenceIds
        /\ file_references[arg_reference_id[p]] # NoDocument
        /\ result[p] = file_references[arg_reference_id[p]].telegram_file_id
        /\ Age(file_references[arg_reference_id[p]]) = 22

\* C2: a resolve of a reference whose is_active is false returns no handle
\* (None), whatever its age.
C2_InactiveResolvesToNone ==
    [][\A p \in Requests :
         LET r == arg_reference_id'[p] IN
         (Starts(p) /\ file_references[r] # NoDocument
                    /\ ~file_references[r].is_active)
         => (pc'[p] = "done" /\ result'[p] = None)]_vars

\* C3: when the probe of a stale reference succeeds, the resolve returns the
\* handle the reference had when the call read it, stores that same handle
\* and stamps last_refreshed with the time of the update.
C3_ProbeOkKeepsHandle ==
    [][\A p \in Requests :
         LET r == arg_reference_id[p] IN
         (Updates(p) /\ probe[p] = "ok")
         => /\ Age(file_ref[p]) >= 23
            /\ pc'[p] = "done"
            /\ result'[p] = file_ref[p].telegram_file_id
            /\ file_references'[r].telegram_file_id = file_ref[p].telegram_file_id
            /\ file_references'[r].last_refreshed = now]_vars

\* C3 witness: a request is done after a successful probe of a reference
\* that was 24 hours old; the handle is the ingested one, the stamp is now.
C3_Witness ==
    \E p \in Requests :
        /\ pc[p] = "done" /\ probe[p] = "ok" /\ calls[p] = {"probe"}
        /\ result[p] = "fileA"
        /\ file_references[arg_reference_id[p]].telegram_file_id = "fileA"
        /\ file_references[arg_reference_id[p]].last_refreshed = now
        /\ now = 24

\* C4: when the probe of a stale reference is rejected and the discovery
\* returns a handle, the resolve returns that handle and stores it,
\* last_refreshed moves forward to the time of the update, and the
\* reference keeps its reference_id.
C4_DiscoveryReplacesHandle ==
    [][\A p \in Requests :
         LET r == arg_reference_id[p] IN
         (Updates(p) /\ probe[p] = "rejected")
         => /\ "discover" \in calls[p] /\ pending[p] \in Handles
            /\ pc'[p] = "done"
            /\ result'[p] = pending[p]
            /\ file_references'[r].telegram_file_id = pending[p]
            /\ file_references'[r].last_refreshed = now
            /\ file_references'[r].last_refreshed > file_ref[p].last_refreshed
            /\ file_references'[r].last_refreshed >= file_references[r].last_refreshed
            /\ file_references'[r].reference_id = r
            /\ \A q \in ReferenceIds \ {r} : file_references'[q] = file_references[q]]_vars

\* C4 witness: created with fileA, rejected at hour 24, fileB discovered,
\* returned and stored with last_refreshed = 24.
C4_Witness ==
    \E p \in Requests :
        /\ pc[p] = "done" /\ probe[p] = "rejected"
        /\ calls[p] = {"probe", "discover"}
        /\ result[p] = "fileB"
        /\ file_references[arg_reference_id[p]].telegram_file_id = "fileB"
        /\ file_references[arg_reference_id[p]].reference_id = arg_reference_id[p]
        /\ file_references[arg_reference_id[p]].last_refreshed = 24
        /\ now = 24

\* C5: no step of a refresh attempt other than its final update writes the
\* store, and an attempt whose discovery finds nothing ends there with no
\* handle: telegram_file_id, last_refreshed and is_active stay as they were.
C5_FailedDiscoveryWritesNothing ==
    [][\A c \in Callers :
         /\ (Starts(c) \/ Probes(c) \/ Discovers(c))
                => file_references' = file_references
         /\ (Discovers(c) /\ pc'[c] # "update")
                => /\ result'[c] = None
                   /\ \A r \in ReferenceIds :
                         file_references[r] # NoDocument
                         => /\ file_references'[r].telegram_file_id
                                   = file_references[r].telegram_file_id
                            /\ file_references'[r].last_refreshed
                                   = file_references[r].last_refreshed
                            /\ file_references'[r].is_active
                                   = file_references[r].is_active]_vars

\* C5 witness: a request is done with no handle after a rejected probe and a
\* discovery that found nothing; the reference is still active, stale and
\* holds the ingested handle.
C5_Witness ==
    \E p \in Requests :
        /\ pc[p] = "done" /\ probe[p] = "rejected"
        /\ calls[p] = {"probe", "discover"}
        /\ result[p] = None
        /\ file_references[arg_reference_id[p]].is_active
        /\ file_references[arg_reference_id[p]].telegram_file_id = "fileA"
        /\ Age(file_references[arg_reference_id[p]]) >= 23

\* C6: of the resolve calls in flight at the same time on one stale
\* reference, at most one has issued the upstream probe.
C6_SingleFlightProbe ==
    \A p, q \in Requests :
        (/\ pc[p] \in {"discover", "update"}
         /\ pc[q] \in {"discover", "update"}
         /\ "probe" \in calls[p] /\ "probe" \in calls[q]
         /\ arg_reference_id[p] = arg_reference_id[q])
        => p = q

C8_DiscoveryOnlyAfterRejection ==
    \A c \in Callers : "discover" \in calls[c] => probe[c] = "rejected"

\* C9: a resolve whose probe fails with a transient upstream error ends at
\* that step with the retryable error as its outcome, without a discovery
\* and without a write to the reference.
C9_TransientPropagates ==
    [][\A p \in Requests :
         (probe'[p] = "transient" /\ pc'[p] # pc[p])
         => /\ pc'[p] = "done"
            /\ result'[p] = TransientUpstreamError
            /\ "discover" \notin calls'[p]
            /\ file_references' = file_references]_vars

NotFound == None

\* C11: a resolve of a reference that exists and is active but for which
\* both the probe and the discovery failed ends with an outcome other than
\* the one an absent reference gets.
C11_UnresolvableDiffersFromNotFound ==
    [][\A p \in Requests :
         LET r == arg_reference_id[p] IN
         (/\ Discovers(p) /\ pc'[p] = "done"
          /\ file_references[r] # NoDocument
          /\ file_references[r].is_active)
         => result'[p] # NotFound]_vars

\* C12: the handle and the refresh stamp of a reference change only in the
\* store update of a refresh of that reference; every other step, the
\* soft delete included, leaves both as they were.
C12_OnlyRefreshWritesHandleAndStamp ==
    [][\A r \in ReferenceIds :
         (/\ file_references[r] # NoDocument
          /\ \/ file_references'[r].telegram_file_id
                    # file_references[r].telegram_file_id
             \/ file_references'[r].last_refreshed
                    # file_references[r].last_refreshed)
         => \E c \in Callers :
                Updates(c) /\ file_ref[c].reference_id = r]_vars

\* C13: the refresh stamp of a reference never goes back, whatever the
\* interleaving of resolves, sweeper refreshes and deletes.
C13_LastRefreshedMonotone ==
    [][\A r \in ReferenceIds :
         file_references[r] # NoDocument
         => file_references'[r].last_refreshed
                >= file_references[r].last_refreshed]_vars

\* C13 witness: a reference created at hour 0 has been deleted and then
\* refreshed by a probe at a later hour, and carries that hour.
C13_Witness ==
    \E c \in Callers, r \in ReferenceIds :
        /\ file_references[r] # NoDocument
        /\ ~file_references[r].is_active
        /\ probe[c] = "ok" /\ pc[c] \in {"done", "pace"}
        /\ file_references[r].last_refreshed = now
        /\ now >= file_refresh_interval

\* C14: a reference once created stays in the store under the same
\* reference_id; a delete only clears its active flag.
C14_NeverRemovedIdStable ==
    [][\A r \in ReferenceIds :
         file_references[r] # NoDocument
         => /\ file_references'[r] # NoDocument
            /\ file_references'[r].reference_id = r
            /\ file_references[r].reference_id = r]_vars

\* C14 witness: a deleted reference is still in the store, inactive, and a
\* request has read it back under its reference_id.
C14_Witness ==
    \E p \in Requests :
        /\ pc[p] = "probe"
        /\ file_ref[p] # NoDocument
        /\ ~file_ref[p].is_active
        /\ file_ref[p].reference_id = arg_reference_id[p]
        /\ file_references[arg_reference_id[p]] = file_ref[p]

Ingests == ingest.pc = "idle" /\ ingest'.pc # "idle"

\* C16: a media update from a chat that has no channel mapping makes the
\* call return once the lookup has answered: no reference, no catalog
\* entry, and no exception raised or logged.
C16_UnmappedChannelIsNoOp ==
    [][(/\ Ingests
        /\ ingest'.update # NoMessage
        /\ MappingsOf(channel_mappings, ingest'.update.chat_id) = {}
        /\ ~(ingest'.pc = "returned" /\ ingest'.failed = "get_channel_mapping"))
       => /\ ingest'.pc = "returned"
          /\ ingest'.reference_id = None
          /\ ingest'.failed = None
          /\ file_references' = file_references
          /\ media_files' = media_files]_vars

\* C16 witness: a document posted in a group that has no mapping, while
\* another chat has one, has been taken and dropped.
C16_Witness ==
    /\ ingest.pc = "returned"
    /\ ingest.update # NoMessage
    /\ ingest.update.chat_type \in GroupChatTypes
    /\ ingest.update.payload = "document"
    /\ MappingsOf(channel_mappings, ingest.update.chat_id) = {}
    /\ channel_mappings # <<>>
    /\ ingest.reference_id = None /\ ingest.failed = None
    /\ \A r \in ReferenceIds :
           file_references[r] = NoDocument /\ media_files[r] = NoDocument

\* C17: a media update from a chat whose mapping is inactive is dropped
\* like one from a chat without a mapping: no reference, no catalog entry.
C17_InactiveMappingIngestsNothing ==
    [][(/\ Ingests
        /\ ingest'.update # NoMessage
        /\ MappingsOf(channel_mappings, ingest'.update.chat_id) # {}
        /\ \A i \in MappingsOf(channel_mappings, ingest'.update.chat_id) :
               ~channel_mappings[i].is_active)
       => /\ ingest'.pc = "returned"
          /\ ingest'.reference_id = None]_vars

\* The file types of the catalog.
FileTypes == {"video", "pdf", "document"}

\* C18: the reference an ingestion creates has one of the three file
\* types: pdf for a pdf mime type, video for a video payload or a video
\* mime type, document for a document with no mime type or another one.
C18_IngestedFileType ==
    [][\A r \in ReferenceIds :
         (ingest.pc = "reference" /\ file_references[r] = NoDocument
                                  /\ file_references'[r] # NoDocument)
         => LET u == ingest.update
                file_type == file_references'[r].file_type
            IN  /\ file_type \in FileTypes
                /\ u.mime_type = "application/pdf" => file_type = "pdf"
                /\ (u.payload = "video" \/ u.mime_type = "video/mp4")
                       => file_type = "video"
                /\ (u.payload = "document"
                        /\ u.mime_type \in {None, "application/zip"})
                       => file_type = "document"]_vars

\* C18 witness: the ingestion of a document with a pdf mime type has
\* returned and its reference is a pdf.
C18_Witness ==
    /\ ingest.pc = "returned"
    /\ ingest.reference_id \in ReferenceIds
    /\ ingest.update.payload = "document"
    /\ ingest.update.mime_type = "application/pdf"
    /\ file_references[ingest.reference_id].file_type = "pdf"

\* C19: when process_channel_media has returned, the reference it minted
\* is in the store exactly if its catalog entry is, also after a failed
\* store write.
C19_ReferenceIffCatalogEntry ==
    \A r \in ReferenceIds :
        (ingest.pc = "returned" /\ ingest.reference_id = r)
        => (file_references[r] # NoDocument <=> media_files[r] # NoDocument)

\* C20: what get_file_stream returns with the bytes is the reference's own
\* metadata: the stored filename and the stored declared size.
C20_StreamCarriesStoredMetadata ==
    \A p \in Requests :
        (stream[p] # NoStream /\ stream[p] # NoTuple)
        => /\ stream[p].filename
                  = file_references[arg_reference_id[p]].filename
           /\ stream[p].size
                  = file_references[arg_reference_id[p]].file_size

\* C21: the collection holds at most one mapping per channel_id, whatever
\* the interleaving of sync calls, two calls for the same unmapped channel
\* included.
C21_OneMappingPerChannel ==
    \A ch \in Channels : Cardinality(MappingsOf(channel_mappings, ch)) <= 1

\* C21 witness: two sync calls for the same channel both found it
\* unmapped; one inserted the mapping and succeeded, the other's insert was
\* refused by the unique index.
C21_Witness ==
    \E s, t \in Syncers :
        /\ sync[s].pc = "returned" /\ sync[s].success
        /\ sync[t].pc = "returned" /\ sync[t].error = "DuplicateKeyError"
        /\ sync[s].channel_id = sync[t].channel_id
        /\ Cardinality(MappingsOf(channel_mappings, sync[s].channel_id)) = 1

\* C29: when a sync call has returned success for a channel and a course,
\* the mapping of the channel maps to that course.
C29_SyncSuccessMeansMapped ==
    \A s \in Syncers :
        (sync[s].pc = "returned" /\ sync[s].success)
        => /\ MappingsOf(channel_mappings, sync[s].channel_id) # {}
           /\ \A i \in MappingsOf(channel_mappings, sync[s].channel_id) :
                  channel_mappings[i].course_id = sync[s].course_id

\* C22: a user is granted at most two resets by /reset_device, and the
\* stored device_reset_count never goes above two, whatever the
\* interleaving of the user's commands.
C22_AtMostTwoResets ==
    \A u \in UserIds :
        /\ performed[u] <= 2
        /\ users[u] # NoDocument => users[u].device_reset_count <= 2

\* The sweeper's listing answers.
Scans == pc[Sweeper] = "scan" /\ pc'[Sweeper] \in {"probe", "idle"}

\* C23: the batch a sweeper cycle takes from its listing is exactly the
\* set of active references that are 23 hours old or older at that moment.
C23_BatchIsActiveStaleSet ==
    [][Scans =>
         {expired_refs'[i].reference_id : i \in DOMAIN expired_refs'}
             = {r \in ReferenceIds :
                    /\ file_references[r] # NoDocument
                    /\ file_references[r].is_active
                    /\ Age(file_references[r]) >= 23}]_vars

\* C28: the handle a resolve returns was stored at ingestion, confirmed by
\* a probe or found by a discovery less than 23 hours before the return.
C28_ReturnedHandleValidatedWithinTTL ==
    [][\A p \in Requests :
         (pc[p] # "done" /\ pc'[p] = "done" /\ result'[p] # None)
         => now - validated'[arg_reference_id'[p]] < 23]_vars

\* C24: the refresh task never ends: whatever has happened, a failed
\* listing included, it comes to another listing.
C24_SweeperNeverExits ==
    /\ [](pc[Sweeper] \in {"scan", "probe", "discover", "update", "pace",
                           "idle", "backoff"})
    /\ []<>(pc[Sweeper] = "scan")
    /\ (pc[Sweeper] = "backoff") ~> (pc[Sweeper] = "scan")

\* C24 witness: a listing has failed and the task is in its five-minute
\* sleep, with a reference waiting that is older than 23 hours.
C24_Witness ==
    /\ pc[Sweeper] = "backoff"
    /\ \E r \in ReferenceIds :
           file_references[r] # NoDocument /\ Age(file_references[r]) > 23

\* C26: with no resolve called, an active reference older than 23 hours is
\* in the end validated again by the refresh task, unless it is deleted
\* first, when listings do not fail for ever and the upstream accepts the
\* handle.
C26_SweeperRefreshesStale ==
    \A r \in ReferenceIds :
        (/\ file_references[r] # NoDocument
         /\ file_references[r].is_active
         /\ Age(file_references[r]) > 23)
        ~> (/\ file_references[r] # NoDocument
            /\ \/ /\ now - validated[r] < 23
                  /\ Age(file_references[r]) < 23
               \/ ~file_references[r].is_active)

\* C26 witness: the task has probed an active reference that was older
\* than 23 hours, the upstream accepted the handle, and the reference
\* carries the hour of the refresh.
C26_Witness ==
    \E r \in ReferenceIds :
        /\ pc[Sweeper] = "pace" /\ probe[Sweeper] = "ok"
        /\ file_references[r] # NoDocument
        /\ file_references[r].is_active
        /\ validated[r] = now /\ file_references[r].last_refreshed = now
        /\ now > 23

\* The refresh task is inside refresh_file_id.
Refreshing == pc[Sweeper] \in {"probe", "discover", "update"}

\* C25: a refresh of the task that ends, failed or not, leaves the rest of
\* the batch in place and leads to the pacing sleep; after that sleep the
\* task takes the next reference of the batch; the five-minute sleep is
\* entered from the listing only.
C25_FailedRefreshDoesNotStopBatch ==
    [][/\ (Refreshing /\ pc'[Sweeper] # pc[Sweeper])
           => /\ pc'[Sweeper] \in {"discover", "update", "pace"}
              /\ expired_refs' = expired_refs
       /\ (pc[Sweeper] = "pace" /\ pc'[Sweeper] # "pace" /\ Len(expired_refs) > 1)
           => /\ pc'[Sweeper] = "probe"
              /\ file_ref'[Sweeper] = expired_refs[2]
              /\ expired_refs' = Tail(expired_refs)
       /\ (pc'[Sweeper] = "backoff" /\ pc[Sweeper] # "backoff")
           => pc[Sweeper] = "scan"]_vars

\* The task is at the second reference of a batch of two while the first,
\* whose refresh failed, is as stale as it was.
C25_Witness ==
    /\ pc[Sweeper] = "probe"
    /\ Len(expired_refs) = 1
    /\ now = MaxTime
    /\ \A r \in BatchReferenceIds :
           /\ file_references[r] # NoDocument
           /\ file_references[r].last_refreshed = 0
           /\ validated[r] = 0

\* C27: when the refresh task sends the probe for a reference, the stored
\* reference is 23 hours old or older.
C27_ProbedOnlyIfStillStale ==
    [][(pc'[Sweeper] = "probe" /\ pc[Sweeper] # "probe")
           => Age(file_references'[file_ref'[Sweeper].reference_id]) >= 23]_vars

==========================================================================
